---- MODULE Spec2Model ----
(***************************************************************************)
(* Scrollinga: a scroll-lock engine attached to one scrollable DOM target. *)
(* The model follows src/scrollinga.js and its later revision              *)
(* src/unnamed/part_000 (which differs in isScrollDown only).              *)
(*                                                                         *)
(* The host (browser) is modelled by what the engine relies on:            *)
(*  - writing target.scrollTop clamps the value to                         *)
(*    0 .. scrollHeight - clientHeight, and a write that changes the       *)
(*    offset queues ONE scroll notification for the target (notifications  *)
(*    of one target are coalesced until delivery);                         *)
(*  - the user, and layout (content shrinking, viewport resizing), change  *)
(*    the offset between handlers and queue the same notification;         *)
(*  - handlers run to completion, one at a time.                           *)
(***************************************************************************)
EXTENDS Integers, Sequences, FiniteSets

\* ---------------------------------------------------------------- bounds
MaxHeight == 4          \* largest total content height (scrollHeight)
MaxClient == 2          \* largest visible height (clientHeight)
MaxPixelRatio == 2      \* largest window.devicePixelRatio
MaxReports == 2         \* most load listeners held by the image at one time

\* ------------------------------------------------------ program constants
DEFAULT_INTERVAL_FALLBACK == 100

VARIABLES
  build,            \* which revision runs: "scrollinga" or "part_000"
  pixelRatio,       \* window.devicePixelRatio
  hasObserver,      \* window.MutationObserver exists
  scrollTop,        \* target.scrollTop
  clientHeight,     \* target.clientHeight
  scrollHeight,     \* target.scrollHeight
  scrollLock,       \* this.scrollLock
  rescrolling,      \* this.rescrolling
  interval,         \* this.interval
  observing,        \* this.observer is connected to the target
  scrollListener,   \* onScroll is registered on the target
  resizeListener,   \* onResize is registered on window
  timers,           \* ids of the host's running interval timers
  pollTimer,        \* id of the timer that calls rescroll (0: none)
  mutationPending,  \* change records queued for the observer
  scrollPending,    \* causes of the queued scroll notification ({}: none)
  pc,               \* "new" (not constructed), "live", "closed"
  lastOp,           \* history: the step taken last
  writes,           \* history: scrollTop writes the last step performed
  pinnedBefore,     \* history: bottom-locked and at-bottom before the queued change
  imageListeners,   \* number of 'load' listeners the engine holds on the image
  quiet             \* the host and the caller have stopped acting

vars == << build, pixelRatio, hasObserver, scrollTop, clientHeight,
           scrollHeight, scrollLock, rescrolling, interval, observing,
           scrollListener, resizeListener, timers, pollTimer,
           mutationPending, scrollPending, pc, lastOp, writes, pinnedBefore,
           imageListeners, quiet >>

\* The host's capabilities.
host == << build, pixelRatio, hasObserver >>

\* What every step but the image's and the host's going quiet leaves alone.
env == << host, imageListeners, quiet >>

Min(a, b) == IF a < b THEN a ELSE b
Max(a, b) == IF a > b THEN a ELSE b

\* ------------------------------------------------------------ the target
\* The largest offset the target can be scrolled to.
MaxScrollTop == scrollHeight - clientHeight

\* The value target.scrollTop holds after `v` is assigned to it.
Clamp(v) == Max(0, Min(v, MaxScrollTop))

\* ------------------------------------------------------------- the locks
\* prevScrollHeight is the height the freeze-at-current closure captured;
\* prevScrollTop is history only (the offset at that time, which the code does
\* not keep).
NoLock == [kind |-> "none", prevScrollHeight |-> 0, prevScrollTop |-> 0]
BottomLock == [kind |-> "bottom", prevScrollHeight |-> 0, prevScrollTop |-> 0]
TopLock == [kind |-> "top", prevScrollHeight |-> 0, prevScrollTop |-> 0]
CurrentLock(h, t) == [kind |-> "current", prevScrollHeight |-> h, prevScrollTop |-> t]

Locks ==
  {NoLock, BottomLock, TopLock}
    \cup {CurrentLock(h, t) : h \in 1..MaxHeight, t \in 0..MaxHeight}

\* scrollinga.js: exact comparison.
isScrollDown_scrollinga(st) == st + clientHeight = scrollHeight

\* part_000: comparison in device pixels (a missing or zero devicePixelRatio
\* counts as 1).
isScrollDown_part_000(st) ==
  LET ratio == IF pixelRatio = 0 THEN 1 ELSE pixelRatio
      ch == (clientHeight + st) \div ratio
      sh == scrollHeight \div ratio
  IN  (sh - ch) < ratio

isScrollDown(st) ==
  IF build = "scrollinga" THEN isScrollDown_scrollinga(st)
                          ELSE isScrollDown_part_000(st)

isScrollUp(st) == st = 0

\* The engine's part of the state that a handler reads and writes.
Engine == [scrollTop |-> scrollTop, scrollLock |-> scrollLock,
           rescrolling |-> rescrolling, scrollPending |-> scrollPending,
           writes |-> << >>]

isScrollLocked(e) == e.scrollLock.kind # "none"

\* when() with the bottom-lock's negation lost.
when_inverted(e) ==
  CASE e.scrollLock.kind = "bottom" -> isScrollDown(e.scrollTop)
    [] e.scrollLock.kind = "top" -> ~isScrollUp(e.scrollTop)
    [] e.scrollLock.kind = "current" -> TRUE
    [] OTHER -> FALSE

\* when() that is true under every lock.
when_always(e) == isScrollLocked(e)

\* scrollLock.when()
when(e) ==
  CASE e.scrollLock.kind = "bottom" -> ~isScrollDown(e.scrollTop)
    [] e.scrollLock.kind = "top" -> ~isScrollUp(e.scrollTop)
    [] e.scrollLock.kind = "current" -> TRUE
    [] OTHER -> FALSE

\* scrollLock.at()
at(e) ==
  CASE e.scrollLock.kind = "bottom" -> scrollHeight
    [] e.scrollLock.kind = "top" -> 0
    [] e.scrollLock.kind = "current" -> scrollHeight - e.scrollLock.prevScrollHeight
    [] OTHER -> 0

\* shouldRescroll() that forgets to ask the lock's when().
shouldRescroll_ignoresWhen(e) == isScrollLocked(e)

shouldRescroll(e) == isScrollLocked(e) /\ when(e)

\* this.target.scrollTop = v, written at `site`.
writeScrollTop(e, v, site) ==
  [e EXCEPT !.scrollTop = Clamp(v),
            !.scrollPending = IF Clamp(v) # e.scrollTop THEN @ \cup {site} ELSE @,
            !.writes = Append(@, [site |-> site, value |-> v, from |-> e.scrollTop,
                                  flag |-> e.rescrolling,
                                  locked |-> e.scrollLock.kind # "none"])]

\* rescroll() that raises the flag before asking shouldRescroll().
rescroll_flagFirst(e) ==
  IF shouldRescroll(e)
    THEN writeScrollTop([e EXCEPT !.rescrolling = TRUE], at(e), "rescroll")
    ELSE [e EXCEPT !.rescrolling = TRUE]

rescroll(e) ==
  IF shouldRescroll(e)
    THEN writeScrollTop([e EXCEPT !.rescrolling = TRUE], at(e), "rescroll")
    ELSE e

setScrollLock(e, lock) == [e EXCEPT !.scrollLock = lock]

setScrollLockAtBottom(e) == rescroll(setScrollLock(e, BottomLock))

\* setScrollLockAtTop() that moves the target itself instead of calling rescroll().
setScrollLockAtTop_direct(e) ==
  writeScrollTop(setScrollLock(e, TopLock), 0, "setScrollLockAtTop")

setScrollLockAtTop(e) == rescroll(setScrollLock(e, TopLock))

setScrollLockAtCurrentPosition(e) ==
  setScrollLock(e, CurrentLock(scrollHeight, e.scrollTop))

removeScrollLock(e) == [e EXCEPT !.scrollLock = NoLock]

\* setInitialScrollLock() without the early return of the numeric case.
setInitialScrollLock_fallsThrough(e, position) ==
  IF position.kind = "number"
    THEN setScrollLockAtBottom(writeScrollTop(e, position.value, "setInitialScrollLock"))
    ELSE CASE position.kind = "bottom" -> setScrollLockAtBottom(e)
           [] position.kind = "top" -> setScrollLockAtTop(e)
           [] OTHER -> setScrollLockAtBottom(e)

\* position: [kind |-> "number" | "bottom" | "top" | "absent", value |-> n]
setInitialScrollLock(e, position) ==
  IF position.kind = "number"
    THEN writeScrollTop(e, position.value, "setInitialScrollLock")
    ELSE CASE position.kind = "bottom" -> setScrollLockAtBottom(e)
           [] position.kind = "top" -> setScrollLockAtTop(e)
           [] OTHER -> setScrollLockAtBottom(e)

\* onScroll() without the rescrolling guard.
onScroll_unguarded(e) ==
  LET e1 == IF isScrollDown(e.scrollTop) /\ ~isScrollLocked(e)
              THEN setScrollLockAtBottom(e)
              ELSE IF ~isScrollDown(e.scrollTop)
                     THEN removeScrollLock(e)
                     ELSE e
  IN  [e1 EXCEPT !.rescrolling = FALSE]

\* onScroll() that also engages the top-lock when the user reaches the top.
onScroll_topEngages(e) ==
  IF e.rescrolling
    THEN [e EXCEPT !.rescrolling = FALSE]
    ELSE LET e1 == IF isScrollDown(e.scrollTop) /\ ~isScrollLocked(e)
                     THEN setScrollLockAtBottom(e)
                     ELSE IF ~isScrollDown(e.scrollTop)
                            THEN IF isScrollUp(e.scrollTop) /\ ~isScrollLocked(e)
                                   THEN setScrollLockAtTop(e)
                                   ELSE removeScrollLock(e)
                            ELSE e
         IN  [e1 EXCEPT !.rescrolling = FALSE]

\* onScroll() that installs the bottom-lock at the bottom whatever lock is set.
onScroll_replacesLock(e) ==
  IF e.rescrolling
    THEN [e EXCEPT !.rescrolling = FALSE]
    ELSE LET e1 == IF isScrollDown(e.scrollTop)
                     THEN setScrollLockAtBottom(e)
                     ELSE removeScrollLock(e)
         IN  [e1 EXCEPT !.rescrolling = FALSE]

onScroll(e) ==
  IF e.rescrolling
    THEN [e EXCEPT !.rescrolling = FALSE]
    ELSE LET e1 == IF isScrollDown(e.scrollTop) /\ ~isScrollLocked(e)
                     THEN setScrollLockAtBottom(e)
                     ELSE IF ~isScrollDown(e.scrollTop)
                            THEN removeScrollLock(e)
                            ELSE e
         IN  [e1 EXCEPT !.rescrolling = FALSE]

\* ------------------------------------------------------------ bookkeeping
\* A step of the host: nothing of the engine ran.
Op(name) ==
  [name |-> name, position |-> "-", value |-> 0, causes |-> {}, before |-> "-",
   suppressed |-> FALSE]

\* A notification handled by the engine, with the lock it found.
Ran(name) == [Op(name) EXCEPT !.before = scrollLock.kind]

\* rescroll() called k times in a row.
RECURSIVE rescrollTimes(_, _)
rescrollTimes(e, k) == IF k = 0 THEN e ELSE rescrollTimes(rescroll(e), k - 1)

\* The smallest timer id the host has not in use.
FreshTimer == CHOOSE id \in 1..(Cardinality(timers) + 1) : id \notin timers

\* The engine's state after a handler, and the history of the step.
Commit(e, op) ==
  /\ scrollTop' = e.scrollTop
  /\ scrollLock' = e.scrollLock
  /\ rescrolling' = e.rescrolling
  /\ scrollPending' = e.scrollPending
  /\ writes' = e.writes
  /\ lastOp' = op

\* pinnedBefore is kept only while the change it describes is queued or was
\* just delivered.
KeepPinned == pinnedBefore' = (mutationPending' /\ pinnedBefore)

Positions ==
  {[kind |-> k, value |-> 0] : k \in {"bottom", "top", "absent"}}
    \cup {[kind |-> "number", value |-> n] : n \in (-1)..MaxHeight}

\* ------------------------------------------------------------------ Init
\* The state before construction, on a host running the interval timers
\* `hostTimers` of its own.
InitHost(hostTimers) ==
  /\ build \in {"scrollinga", "part_000"}
  \* scrollinga.js never reads devicePixelRatio: one value stands for all
  /\ pixelRatio \in (IF build = "scrollinga" THEN {1} ELSE 1..MaxPixelRatio)
  /\ hasObserver \in BOOLEAN
  /\ clientHeight \in 1..MaxClient
  /\ scrollHeight \in clientHeight..MaxHeight
  /\ scrollTop \in 0..(scrollHeight - clientHeight)
  /\ scrollLock = NoLock
  /\ rescrolling = FALSE
  /\ interval = 0
  /\ observing = FALSE
  /\ scrollListener = FALSE
  /\ resizeListener = FALSE
  /\ timers = hostTimers
  /\ pollTimer = 0
  /\ mutationPending = FALSE
  /\ scrollPending = {}
  /\ pc = "new"
  /\ lastOp = Op("init")
  /\ writes = << >>
  /\ pinnedBefore = FALSE
  /\ imageListeners = 0
  /\ quiet = FALSE

Init == InitHost({})

\* --------------------------------------------------------------- actions
\* new Scrollinga({target, position, interval}); optInterval = 0: no interval
\* given.
ConstructWith(position, optInterval) ==
  /\ pc = "new"
  /\ LET e == rescroll(setInitialScrollLock(Engine, position))
     IN  Commit(e, [Ran("construct") EXCEPT !.position = position.kind,
                                            !.value = position.value])
  \* setupListeners
  /\ IF hasObserver
       THEN /\ observing' = TRUE
            /\ interval' = IF optInterval # 0 THEN optInterval
                                               ELSE DEFAULT_INTERVAL_FALLBACK
            /\ UNCHANGED << timers, pollTimer >>
       ELSE /\ observing' = FALSE
            /\ \E id \in {FreshTimer} :
                 /\ interval' = id
                 /\ pollTimer' = id
                 /\ timers' = timers \cup {id}
  /\ scrollListener' = TRUE
  /\ resizeListener' = TRUE
  /\ pc' = "live"
  /\ UNCHANGED << env, clientHeight, scrollHeight, mutationPending, pinnedBefore >>

\* new Scrollinga({target, position}): this.interval starts as the default.
Construct(position) == ConstructWith(position, 0)

\* Frame of a handler or API call: only the engine's fields change.
HandlerFrame ==
  /\ KeepPinned
  /\ UNCHANGED << env, clientHeight, scrollHeight, interval, observing,
                  scrollListener, resizeListener, timers, pollTimer, pc >>

\* The queued scroll notification is dispatched to the target.
ScrollEvent ==
  /\ scrollPending # {}
  /\ IF scrollListener
       THEN Commit([onScroll(Engine) EXCEPT !.scrollPending = {}],
                   [Ran("onScroll") EXCEPT !.causes = scrollPending,
                                           !.suppressed = rescrolling])
       ELSE Commit([Engine EXCEPT !.scrollPending = {}], Op("scrollUnheard"))
  /\ UNCHANGED mutationPending
  /\ HandlerFrame

\* The observer's callback: onMutation(mutations), where the added nodes of
\* the batch hold the image `reports` times (as a node or as a descendant, in
\* one record or several): rescroll(), then addImageListeners() attaches one
\* new 'load' listener per report.
OnMutationWith(reports) ==
  /\ observing
  /\ mutationPending
  /\ imageListeners + reports <= MaxReports
  /\ mutationPending' = FALSE
  /\ Commit(rescroll(Engine), [Ran("onMutation") EXCEPT !.value = reports])
  /\ imageListeners' = imageListeners + reports
  /\ pinnedBefore' = pinnedBefore
  /\ UNCHANGED << host, quiet, clientHeight, scrollHeight, interval, observing,
                  scrollListener, resizeListener, timers, pollTimer, pc >>

\* onMutation(mutations) for a batch that adds no image.
OnMutation == OnMutationWith(0)

\* The image dispatches 'load': every listener held on it calls rescroll() and
\* removes itself.
ImageLoad ==
  /\ pc # "new"
  /\ Commit(rescrollTimes(Engine, imageListeners),
            [Ran("onImageLoad") EXCEPT !.value = imageListeners])
  /\ imageListeners' = 0
  /\ UNCHANGED mutationPending
  /\ KeepPinned
  /\ UNCHANGED << host, quiet, clientHeight, scrollHeight, interval, observing,
                  scrollListener, resizeListener, timers, pollTimer, pc >>

\* A resize notification of window.
OnResize ==
  /\ resizeListener
  /\ Commit(rescroll(Engine), Ran("onResize"))
  /\ UNCHANGED mutationPending
  /\ HandlerFrame

\* A timer whose callback lost its receiver: it fires and rescrolls nothing.
Tick_unbound ==
  /\ pollTimer # 0
  /\ pollTimer \in timers
  /\ Commit(Engine, Ran("tick"))
  /\ UNCHANGED mutationPending
  /\ HandlerFrame

\* The fallback timer fires.
Tick ==
  /\ pollTimer # 0
  /\ pollTimer \in timers
  /\ Commit(rescroll(Engine), Ran("tick"))
  /\ UNCHANGED mutationPending
  /\ HandlerFrame

ApiSetScrollLockAtBottom ==
  /\ pc # "new"
  /\ Commit(setScrollLockAtBottom(Engine), Op("setScrollLockAtBottom"))
  /\ UNCHANGED mutationPending
  /\ HandlerFrame

ApiSetScrollLockAtTop ==
  /\ pc # "new"
  /\ Commit(setScrollLockAtTop(Engine), Op("setScrollLockAtTop"))
  /\ UNCHANGED mutationPending
  /\ HandlerFrame

ApiSetScrollLockAtCurrentPosition ==
  /\ pc # "new"
  /\ Commit(setScrollLockAtCurrentPosition(Engine), Op("setScrollLockAtCurrentPosition"))
  /\ UNCHANGED mutationPending
  /\ HandlerFrame

ApiRemoveScrollLock ==
  /\ pc # "new"
  /\ Commit(removeScrollLock(Engine), Op("removeScrollLock"))
  /\ UNCHANGED mutationPending
  /\ HandlerFrame

\* close() that leaves the observer connected.
close_keepsObserver ==
  /\ pc # "new"
  /\ timers' = IF interval # 0 THEN timers \ {interval} ELSE timers
  /\ scrollListener' = FALSE
  /\ resizeListener' = FALSE
  /\ pc' = "closed"
  /\ Commit(Engine, Op("close"))
  /\ UNCHANGED << env, clientHeight, scrollHeight, interval, pollTimer,
                  observing, mutationPending, pinnedBefore >>

close ==
  /\ pc # "new"
  /\ observing' = FALSE
  \* disconnect() drops the queued records
  /\ mutationPending' = FALSE
  /\ timers' = IF interval # 0 THEN timers \ {interval} ELSE timers
  /\ scrollListener' = FALSE
  /\ resizeListener' = FALSE
  /\ pc' = "closed"
  /\ Commit(Engine, Op("close"))
  /\ KeepPinned
  /\ UNCHANGED << env, clientHeight, scrollHeight, interval, pollTimer >>

\* ------------------------------------------------- the host's own steps
\* The user scrolls the target to offset v.
UserScroll(v) ==
  /\ pc # "new"
  /\ v # scrollTop
  /\ scrollTop' = v
  /\ scrollPending' = scrollPending \cup {"user"}
  /\ lastOp' = Op("userScroll")
  /\ writes' = << >>
  /\ UNCHANGED << env, clientHeight, scrollHeight, scrollLock, rescrolling,
                  interval, observing, scrollListener, resizeListener, timers,
                  pollTimer, mutationPending, pc >>
  /\ KeepPinned

\* The content's height becomes h; `records` says whether the change is a DOM
\* mutation (queued for a connected observer) or layout alone.
ContentChange(h, records) ==
  /\ pc # "new"
  /\ scrollHeight' = h
  /\ scrollTop' = Min(scrollTop, h - clientHeight)
  /\ scrollPending' = IF scrollTop' # scrollTop THEN scrollPending \cup {"layout"}
                                                ELSE scrollPending
  /\ mutationPending' = (mutationPending \/ (observing /\ records))
  /\ pinnedBefore' = IF mutationPending THEN pinnedBefore
                     ELSE /\ mutationPending'
                          /\ scrollLock.kind = "bottom"
                          /\ isScrollDown(scrollTop)
  /\ lastOp' = Op("contentChange")
  /\ writes' = << >>
  /\ UNCHANGED << env, clientHeight, scrollLock, rescrolling, interval,
                  observing, scrollListener, resizeListener, timers, pollTimer,
                  pc >>

\* The viewport's height becomes c.
ViewportChange(c) ==
  /\ pc # "new"
  /\ c # clientHeight
  /\ clientHeight' = c
  /\ scrollTop' = Min(scrollTop, scrollHeight - c)
  /\ scrollPending' = IF scrollTop' # scrollTop THEN scrollPending \cup {"layout"}
                                                ELSE scrollPending
  /\ lastOp' = Op("viewportChange")
  /\ writes' = << >>
  /\ UNCHANGED << env, scrollHeight, scrollLock, rescrolling, interval,
                  observing, scrollListener, resizeListener, timers, pollTimer,
                  mutationPending, pc >>
  /\ KeepPinned

Next ==
  \/ \E position \in Positions : Construct(position)
  \/ ScrollEvent
  \/ OnMutation
  \/ OnResize
  \/ Tick
  \/ ApiSetScrollLockAtBottom
  \/ ApiSetScrollLockAtTop
  \/ ApiSetScrollLockAtCurrentPosition
  \/ ApiRemoveScrollLock
  \/ close
  \/ \E v \in 0..MaxScrollTop : UserScroll(v)
  \/ \E h \in clientHeight..MaxHeight, records \in BOOLEAN : ContentChange(h, records)
  \/ \E c \in 1..Min(MaxClient, scrollHeight) : ViewportChange(c)

Spec == Init /\ [][Next]_vars

\* ------------------------------------------------- the engine with an image
\* A host running src/scrollinga.js whose content holds one image: change
\* batches may report it, and it may dispatch 'load' at any time.
InitImages == Init /\ build = "scrollinga"

NextImages ==
  \/ \E position \in Positions : Construct(position)
  \/ ScrollEvent
  \/ \E reports \in 0..MaxReports : OnMutationWith(reports)
  \/ ImageLoad
  \/ OnResize
  \/ Tick
  \/ ApiSetScrollLockAtBottom
  \/ ApiSetScrollLockAtTop
  \/ ApiSetScrollLockAtCurrentPosition
  \/ ApiRemoveScrollLock
  \/ close
  \/ \E v \in 0..MaxScrollTop : UserScroll(v)
  \/ \E h \in clientHeight..MaxHeight, records \in BOOLEAN : ContentChange(h, records)

SpecImages == InitImages /\ [][NextImages]_vars

\* ------------------------------------------------ the host falling quiet
\* From now on the host changes no content, the user does not scroll, the
\* window is not resized and no API is called; what is queued is delivered.
GoQuiet ==
  /\ pc = "live"
  /\ ~quiet
  /\ quiet' = TRUE
  /\ lastOp' = Op("quiet")
  /\ writes' = << >>
  /\ pinnedBefore' = FALSE
  /\ UNCHANGED << host, imageListeners, scrollTop, clientHeight, scrollHeight,
                  scrollLock, rescrolling, interval, observing, scrollListener,
                  resizeListener, timers, pollTimer, mutationPending,
                  scrollPending, pc >>

\* A host running src/scrollinga.js, with or without MutationObserver.
InitQuiet == Init /\ build = "scrollinga"

NextQuiet ==
  \/ ~quiet /\ \E position \in Positions : Construct(position)
  \/ ~quiet /\ OnResize
  \/ ~quiet /\ ApiSetScrollLockAtBottom
  \/ ~quiet /\ ApiSetScrollLockAtTop
  \/ ~quiet /\ ApiSetScrollLockAtCurrentPosition
  \/ ~quiet /\ ApiRemoveScrollLock
  \/ ~quiet /\ \E v \in 0..MaxScrollTop : UserScroll(v)
  \/ ~quiet /\ \E h \in clientHeight..MaxHeight, records \in BOOLEAN :
                  ContentChange(h, records)
  \/ GoQuiet
  \/ ScrollEvent
  \/ OnMutation
  \/ Tick

\* The host's event loop delivers every queued notification, and a running
\* interval timer keeps firing.
SpecQuiet ==
  /\ InitQuiet
  /\ [][NextQuiet]_vars
  /\ WF_vars(ScrollEvent)
  /\ WF_vars(OnMutation)
  /\ WF_vars(Tick)

\* ------------------------------------------------ the engine on a poll timer
\* A host without MutationObserver: setupListeners starts the interval timer.
InitPoll == Init /\ ~hasObserver

NextPoll ==
  \/ \E position \in Positions : Construct(position)
  \/ ScrollEvent
  \/ OnResize
  \/ Tick
  \/ ApiSetScrollLockAtBottom
  \/ ApiRemoveScrollLock
  \/ close
  \/ \E v \in 0..MaxScrollTop : UserScroll(v)
  \/ \E h \in clientHeight..MaxHeight, records \in BOOLEAN : ContentChange(h, records)

\* The interval timer keeps firing until close() clears it.
SpecPoll == InitPoll /\ [][NextPoll]_vars /\ WF_vars(Tick)

\* ------------------------------------------- the engine among host timers
\* Interval timers of the host's own, running before the engine is built.
HostTimers == {1, DEFAULT_INTERVAL_FALLBACK}

\* options.interval as given to the constructor (0: not given).
IntervalOptions == {0, 1, 2}

InitTimers == InitHost(HostTimers)

NextTimers ==
  \/ \E position \in Positions, optInterval \in IntervalOptions :
       ConstructWith(position, optInterval)
  \/ ScrollEvent
  \/ OnMutation
  \/ OnResize
  \/ Tick
  \/ close
  \/ \E v \in 0..MaxScrollTop : UserScroll(v)
  \/ \E h \in clientHeight..MaxHeight, records \in BOOLEAN : ContentChange(h, records)

SpecTimers == InitTimers /\ [][NextTimers]_vars

\* ------------------------------------------------------------ the claims
\* The offset a handler found: handlers move the target by writes alone.
EntryTop == IF writes = << >> THEN scrollTop ELSE writes[1].from

\* The steps that call rescroll() for a notification.
Reconciles == {"onMutation", "onResize", "tick"}

\* Bottom-locked and at-bottom before the change, and onMutation has run.
C1_Case == lastOp.name = "onMutation" /\ scrollLock.kind = "bottom" /\ pinnedBefore

\* C1 as stated: after the rescroll() run by onMutation the offset equals the
\* total content height and the viewport is at-bottom.
C1_OffsetIsContentHeight ==
  C1_Case => (scrollTop = scrollHeight /\ isScrollDown(scrollTop))

\* C1 amended: after the rescroll() run by onMutation the viewport is at-bottom;
\* a write made is of at() = scrollHeight, which the target clamps to
\* scrollHeight - clientHeight; with the exact comparison of scrollinga.js the
\* offset is always scrollHeight - clientHeight.
C1_AtBottomAfterMutation ==
  C1_Case =>
    /\ isScrollDown(scrollTop)
    /\ \A i \in 1..Len(writes) :
         writes[i].site = "rescroll" /\ writes[i].value = scrollHeight
    /\ (writes # << >> \/ build = "scrollinga") => scrollTop = MaxScrollTop

C1_Witness ==
  /\ C1_Case
  /\ Len(writes) = 1
  /\ scrollTop = MaxScrollTop
  /\ scrollTop > writes[1].from

\* C2 as stated: the scroll notification of a user scroll that left the
\* viewport away from the bottom under a bottom-lock clears the lock.
C2_UserScrollAwayClearsLock ==
  (/\ lastOp.name = "onScroll"
   /\ "user" \in lastOp.causes
   /\ lastOp.before = "bottom"
   /\ ~isScrollDown(EntryTop)) => scrollLock = NoLock

\* C3 as stated: a user scroll notification handled with no lock and the
\* viewport at the bottom installs the bottom-lock, the viewport at-bottom.
C3_ScrollToBottomInstallsLock ==
  (/\ lastOp.name = "onScroll"
   /\ lastOp.causes = {"user"}
   /\ lastOp.before = "none"
   /\ isScrollDown(EntryTop)) => (scrollLock = BottomLock /\ isScrollDown(scrollTop))

\* Bottom-locked when a structural-change notification was handled.
C4_Case == lastOp.name = "onMutation" /\ lastOp.before = "bottom"

\* C4 as stated: bottom-locked and not at-bottom when the notification
\* arrives, rescroll() performs no write.
C4_NoWriteWhenNotAtBottom ==
  (C4_Case /\ ~isScrollDown(EntryTop)) => writes = << >>

\* C4 amended: bottom-locked, rescroll() performs no write when the viewport is
\* at-bottom (when() is false), and writes at() when it is not (when() is true).
C4_WriteIffNotAtBottom ==
  C4_Case =>
    IF isScrollDown(EntryTop)
      THEN writes = << >>
      ELSE /\ Len(writes) = 1
           /\ writes[1].site = "rescroll"
           /\ writes[1].value = scrollHeight

C4_Witness ==
  /\ C4_Case
  /\ ~isScrollDown(EntryTop)
  /\ Len(writes) = 1
  /\ isScrollDown(scrollTop)

\* C5 as stated: with the offset still s0 as at setScrollLockAtCurrentPosition()
\* and the content grown by D since, rescroll() leaves the offset at s0 + D.
C5_FreezeAdvancesByGrowth ==
  (/\ lastOp.name \in Reconciles
   /\ lastOp.before = "current"
   /\ EntryTop = scrollLock.prevScrollTop
   /\ scrollHeight > scrollLock.prevScrollHeight)
    => scrollTop = scrollLock.prevScrollTop
                     + (scrollHeight - scrollLock.prevScrollHeight)

\* C6: after close() the target's offset is written by no notification or
\* timer tick; only a lock-setting call of the API still writes.
C6_NoWriteAfterClose ==
  (pc = "closed" /\ writes # << >>)
    => lastOp.name \in {"setScrollLockAtBottom", "setScrollLockAtTop"}

\* C6 witness: closed in fallback mode (the poll timer was started and is
\* cancelled), the content has just changed and the lock asks for a write.
C6_Witness ==
  /\ pc = "closed"
  /\ lastOp.name = "contentChange"
  /\ shouldRescroll(Engine)
  /\ ~observing
  /\ pollTimer # 0
  /\ pollTimer \notin timers

\* C7 as stated: the suppression flag is set only while a scroll notification
\* caused by a write of rescroll() is pending.
C7_FlagOnlyWhilePending ==
  (pc = "live" /\ rescrolling) => "rescroll" \in scrollPending

\* C8 as stated: every write of the offset happens inside rescroll(), after
\* shouldRescroll() and with the suppression flag set.
C8_AllWritesInRescroll ==
  \A i \in 1..Len(writes) :
    writes[i].site = "rescroll" /\ writes[i].flag /\ writes[i].locked

\* C8 amended: every write happens inside rescroll() (locked, flag set), except
\* the constructor's write of a numeric position in setInitialScrollLock(),
\* made with no lock and without the flag.
C8_WritesInRescrollOrInit ==
  \A i \in 1..Len(writes) :
    \/ writes[i].site = "rescroll" /\ writes[i].flag /\ writes[i].locked
    \/ /\ writes[i].site = "setInitialScrollLock"
       /\ lastOp.name = "construct"
       /\ lastOp.position = "number"
       /\ writes[i].value = lastOp.value
       /\ i = 1
       /\ ~writes[i].flag

C8_Witness ==
  /\ lastOp.name = "onResize"
  /\ Len(writes) = 1
  /\ writes[1].site = "rescroll"
  /\ scrollTop # writes[1].from

\* Constructed with a numeric position.
C9_Case == lastOp.name = "construct" /\ lastOp.position = "number"

\* C9 as stated: the offset is p, no lock, and the final rescroll() wrote nothing.
C9_NumericPositionIsOffset ==
  C9_Case =>
    /\ scrollTop = lastOp.value
    /\ scrollLock = NoLock
    /\ Len(writes) = 1 /\ writes[1].site = "setInitialScrollLock"

\* C9 amended: the offset is p clamped to 0 .. scrollHeight - clientHeight.
C9_NumericPositionClamped ==
  C9_Case =>
    /\ scrollTop = Clamp(lastOp.value)
    /\ scrollLock = NoLock
    /\ Len(writes) = 1 /\ writes[1].site = "setInitialScrollLock"

C9_Witness ==
  /\ C9_Case
  /\ lastOp.value > 0
  /\ scrollTop = lastOp.value
  /\ writes[1].from # scrollTop
  /\ scrollLock = NoLock

\* C10: constructed with "top", the offset is 0 and the top-lock is set (a
\* non-zero offset was moved by rescroll(), flag set and notification queued);
\* the notification of a rescroll() write leaves the top-lock in place.
C10_TopLockSurvivesOwnScroll ==
  /\ (lastOp.name = "construct" /\ lastOp.position = "top") =>
       /\ scrollTop = 0
       /\ scrollLock = TopLock
       /\ EntryTop # 0 =>
            (Len(writes) = 1 /\ rescrolling /\ "rescroll" \in scrollPending)
  /\ (/\ lastOp.name = "onScroll"
      /\ "rescroll" \in lastOp.causes
      /\ lastOp.before = "top") => scrollLock = TopLock

C10_Witness ==
  /\ lastOp.name = "onScroll"
  /\ lastOp.causes = {"rescroll"}
  /\ lastOp.before = "top"
  /\ scrollLock = TopLock
  /\ scrollTop = 0
  /\ ~isScrollDown(scrollTop)
  /\ ~rescrolling

\* C11 as stated: however often the image was reported to onMutation, one
\* 'load' notification triggers exactly one rescroll() call (lastOp.value
\* counts the calls), and leaves no listener for a later one.
C11_OneRescrollPerLoad ==
  lastOp.name = "onImageLoad" => (lastOp.value <= 1 /\ imageListeners = 0)

\* C12: a scroll notification never installs a top-lock: after onScroll the
\* lock is the one it found, none, or the bottom-lock; found unlocked with the
\* user at the top and not at the bottom, the engine stays unlocked.
C12_ScrollNeverInstallsTopLock ==
  lastOp.name = "onScroll" =>
    /\ scrollLock.kind = "top" => lastOp.before = "top"
    /\ scrollLock.kind \in {lastOp.before, "none", "bottom"}
    /\ (/\ lastOp.before = "none"
        /\ isScrollUp(scrollTop)
        /\ ~isScrollDown(scrollTop)) => scrollLock = NoLock

C12_Witness ==
  /\ lastOp.name = "onScroll"
  /\ "user" \in lastOp.causes
  /\ ~lastOp.suppressed
  /\ lastOp.before = "none"
  /\ isScrollUp(scrollTop)
  /\ ~isScrollDown(scrollTop)
  /\ scrollLock = NoLock

\* Some notification the host will deliver makes the engine write the offset.
WouldWrite ==
  \/ observing /\ mutationPending /\ shouldRescroll(Engine)
  \/ pollTimer # 0 /\ pollTimer \in timers /\ shouldRescroll(Engine)
  \/ scrollPending # {} /\ scrollListener /\ onScroll(Engine).writes # << >>

\* The poll timer re-assigns the frozen offset, which moves nothing.
IdleRewrite ==
  /\ pollTimer # 0
  /\ pollTimer \in timers
  /\ scrollLock.kind = "current"
  /\ Clamp(at(Engine)) = scrollTop

\* C13 as stated: once the host is quiet (and it stays quiet) the engine
\* reaches a state from which no notification makes it write the offset again.
C13_QuietReachesNoWrites == <>[](quiet => ~WouldWrite)

\* C13: onScroll never writes the offset, so a write's notification leads to
\* no further write; and once the host is quiet the engine reaches a state
\* from which the only writes left are the poll timer's re-assignments of the
\* frozen offset under the freeze-at-current lock.
C13_QuietReachesIdle ==
  /\ [](lastOp.name = "onScroll" => writes = << >>)
  /\ <>[](quiet => (WouldWrite => IdleRewrite))

C13_Witness ==
  /\ quiet
  /\ lastOp.name = "onScroll"
  /\ lastOp.suppressed
  /\ lastOp.causes = {"rescroll"}
  /\ writes = << >>
  /\ scrollPending = {}
  /\ ~WouldWrite

\* C14: in fallback mode a tick under the bottom-lock leaves the viewport
\* at-bottom, and whenever the bottom-lock is set with the viewport not
\* at-bottom while the timer runs, a state follows in which the viewport is
\* at-bottom, or the lock was replaced or cleared, or the engine was closed.
C14_PollEventuallyAtBottom ==
  /\ []((lastOp.name = "tick" /\ lastOp.before = "bottom") => isScrollDown(scrollTop))
  /\ (/\ pollTimer \in timers
      /\ scrollLock.kind = "bottom"
      /\ ~isScrollDown(scrollTop))
       ~> (isScrollDown(scrollTop) \/ scrollLock.kind # "bottom" \/ pc = "closed")

C14_Witness ==
  /\ ~hasObserver
  /\ lastOp.name = "tick"
  /\ lastOp.before = "bottom"
  /\ Len(writes) = 1
  /\ writes[1].from # scrollTop
  /\ isScrollDown(scrollTop)

\* C15 as stated: close() cancels only the poll timer the engine started, so
\* once closed (however often) exactly the host's own timers are running.
C15_CloseCancelsOnlyOwnTimer == pc = "closed" => timers = HostTimers

\* C16 as stated: for a live engine isScrollDown() is true exactly when
\* scrollHeight - (clientHeight + scrollTop) is below the device pixel ratio.
C16_AtBottomIffWithinPixelRatio ==
  pc = "live" =>
    (isScrollDown(scrollTop) <=> scrollHeight - (clientHeight + scrollTop) < pixelRatio)

\* The notifications whose handler is a call of rescroll().
Rescrolls == Reconciles \cup {"onImageLoad"}

\* C17: removeScrollLock() leaves the engine unlocked, and a rescroll() run
\* by a structural change, an image load, a resize or a poll tick while no
\* lock is set changes neither the scroll offset nor the suppression flag nor
\* the lock.
C17_UnlockedRescrollIsNoOp ==
  /\ [](lastOp.name = "removeScrollLock" => ~isScrollLocked(Engine))
  /\ [][(scrollLock = NoLock /\ lastOp'.name \in Rescrolls) =>
          /\ scrollTop' = scrollTop
          /\ rescrolling' = rescrolling
          /\ scrollLock' = NoLock
          /\ writes' = << >>]_vars

C17_Witness ==
  /\ lastOp.name = "onImageLoad"
  /\ lastOp.value >= 1
  /\ lastOp.before = "none"
  /\ scrollLock = NoLock
  /\ ~rescrolling
  /\ ~isScrollUp(scrollTop)
  /\ ~isScrollDown(scrollTop)
  /\ writes = << >>

\* C18 as stated: after close() the image's 'load' notification causes no
\* write of the offset.
C18_NoWriteOnLoadAfterClose ==
  (pc = "closed" /\ lastOp.name = "onImageLoad") => writes = << >>

\* C19 as stated: the scroll notification of the constructor's own write of a
\* numeric position, delivered right after construction, installs no lock.
C19_InitialWriteInstallsNoLock ==
  [][(/\ lastOp.name = "construct"
      /\ lastOp.position = "number"
      /\ lastOp'.name = "onScroll"
      /\ lastOp'.causes = {"setInitialScrollLock"}) => scrollLock' = NoLock]_vars

\* C20: a user's scroll notification that is not suppressed and finds the
\* viewport at-bottom under a top-lock or a freeze-at-current lock leaves the
\* lock and the offset as they were, so the lock's at() is what it was.
C20_AtBottomScrollKeepsOtherLock ==
  [][(/\ lastOp'.name = "onScroll"
      /\ "user" \in scrollPending
      /\ ~rescrolling
      /\ scrollLock.kind \in {"top", "current"}
      /\ isScrollDown(scrollTop)) =>
       /\ scrollLock' = scrollLock
       /\ scrollTop' = scrollTop
       /\ at(Engine)' = at(Engine)]_vars

C20_Witness ==
  /\ lastOp.name = "onScroll"
  /\ "user" \in lastOp.causes
  /\ ~lastOp.suppressed
  /\ lastOp.before = "top"
  /\ isScrollDown(scrollTop)
  /\ ~isScrollUp(scrollTop)
  /\ scrollLock = TopLock

TypeOK ==
  /\ scrollTop \in 0..MaxScrollTop
  /\ clientHeight \in 1..MaxClient
  /\ scrollHeight \in clientHeight..MaxHeight
  /\ scrollLock \in Locks
  /\ rescrolling \in BOOLEAN
  /\ pc \in {"new", "live", "closed"}
====
